---- MODULE Spec2Model ----
(***************************************************************************)
(* State-machine model of the MAST unit devices: the Stage (src/stage.py), *)
(* the Mount (src/src/mount.py), the Focuser (src/src/focuser.py) and the  *)
(* composite UnitStatus (src/Unit.py).                                     *)
(*                                                                         *)
(* Every device method is an operator from a device record to a device     *)
(* record, translated statement by statement; an action applies one method *)
(* to the current state.  Each device has its own specification, in which  *)
(* the variables of the other devices keep their initial values.           *)
(***************************************************************************)
EXTENDS Integers, Sequences, FiniteSets, TLC

VARIABLES
    stg,            \* the Stage object and its power socket (record, see StageInit)
    now,            \* datetime.datetime.now(), in whole seconds
    stgLast,        \* the last completed Stage operation and its argument
    stgStatus,      \* the StageStatus returned by the last operation, if it was status()
    stgRace,        \* the statements the timer thread and a move() request are at (see RaceIdle)
    mnt,            \* the Mount object, its socket and its collaborators (see MountInits)
    mntLast,        \* the last completed Mount operation
    mntTimerAlive,  \* the 'mount-timer-thread' is still running
    mntWhy,         \* the list returned by the last Mount operation, if it was why_not_operational
    mntReq,         \* the request thread inside start_tracking / stop_tracking, or "none"
    foc,            \* the Focuser object, its socket and its collaborators (see FocuserInit)
    focLast,        \* the last completed Focuser operation
    focTimerAlive,  \* the 'focuser-timer-thread' is still running
    focWhy,         \* the list returned by the last Focuser operation, if it was why_not_operational
    focRace,        \* the statements the timer thread and a goto() request are at (see FocuserRaceIdle)
    unt,            \* what Unit.status() reads: sockets and subsystem verdicts
    untStatus,      \* outcome of the last UnitStatus(u) construction
    untLink         \* the subsystems' connections as Unit.connected sees them (see UnitLinkInit)

stageVars == <<stg, now, stgLast, stgStatus, stgRace>>

mountVars == <<mnt, mntLast, mntTimerAlive, mntWhy, mntReq>>

focuserVars == <<foc, focLast, focTimerAlive, focWhy, focRace>>

unitVars == <<unt, untStatus, untLink>>

vars == <<stg, now, stgLast, stgStatus, stgRace, mnt, mntLast, mntTimerAlive, mntWhy, mntReq,
          foc, focLast, focTimerAlive, focWhy, focRace, unt, untStatus, untLink>>

\* What the operations of one device leave alone.
notStage == <<mountVars, focuserVars, unitVars>>

notMount == <<stageVars, focuserVars, unitVars>>

notFocuser == <<stageVars, mountVars, unitVars>>

notUnit == <<stageVars, mountVars, focuserVars>>

----------------------------------------------------------------------------
(* Bounds                                                                  *)

\* The clock advances in steps of ClockStep seconds and stops at MaxTime seconds.
MaxTime == 40
ClockStep == 5

\* The focuser's ASCOM MaxStep: its positions are 0..MaxStep.
MaxStep == 4

\* Focuser.move is called with amounts -1..MaxAmount.
MaxAmount == 2

----------------------------------------------------------------------------
(* Activities mix-in (utils.Activities): a set of flags                    *)

start_activity(activities, flag) == activities \cup {flag}

end_activity(activities, flag) == activities \ {flag}

is_active(activities, flag) == flag \in activities

----------------------------------------------------------------------------
(* Stage: src/stage.py                                                     *)

MIN_TICKS == 0
MAX_TICKS == 50000
TICKS_WHEN_IN == 100
TICKS_WHEN_OUT == 30000
TICKS_PER_SECOND == 1000

\* ticks_at_start and motion_start_time are declared without a value.
Unassigned == -1

StageActivities == {"Moving", "StaringUp", "ShuttingDown"}

StageState == {"Idle", "In", "Out", "MovingIn", "MovingOut", "Error"}

\* Enum aliases: Science = In, Guiding = Out.
Science == "In"
Guiding == "Out"

\* timedelta.seconds: the seconds component of a non-negative difference.
SecondsPerDay == 86400
Seconds(delta) == delta % SecondsPerDay

\* Stage.__init__ and the class attributes; the socket starts Off.
StageInit ==
    [ powered            |-> FALSE,
      connected          |-> FALSE,
      state              |-> "Idle",
      position           |-> 0,
      activities         |-> {},
      ticks_at_start     |-> Unassigned,
      motion_start_time  |-> Unassigned ]

\* @position.setter
Stage_position_set(s, value) ==
    IF s.connected THEN [s EXCEPT !.position = value] ELSE s

\* @connected.setter
Stage_connected_set(s, value) ==
    IF ~s.powered THEN s
    ELSE IF value
         THEN LET s1 == [s EXCEPT !.state = "In"]
                  s2 == Stage_position_set(s1, TICKS_WHEN_IN)
              IN  [s2 EXCEPT !.connected = TRUE]
         ELSE [s EXCEPT !.connected = FALSE]

Stage_connect(s) == IF s.powered THEN Stage_connected_set(s, TRUE) ELSE s

Stage_disconnect(s) == IF s.powered THEN Stage_connected_set(s, FALSE) ELSE s

\* Stage.move without the "already there" return.
Stage_move_always(s, where, t) ==
    IF ~s.connected THEN s
    ELSE [s EXCEPT
            !.activities = start_activity(s.activities, "Moving"),
            !.state = IF where = "In" THEN "MovingIn" ELSE "MovingOut",
            !.ticks_at_start = s.position,
            !.motion_start_time = t]

\* Stage.move without "self.ticks_at_start = self.position".
Stage_move_keeps_ticks(s, where, t) ==
    IF ~s.connected THEN s
    ELSE IF s.state = where THEN s
    ELSE [s EXCEPT
            !.activities = start_activity(s.activities, "Moving"),
            !.state = IF where = "In" THEN "MovingIn" ELSE "MovingOut",
            !.motion_start_time = t]

Stage_move(s, where, t) ==
    IF ~s.connected THEN s
    ELSE IF s.state = where THEN s
    ELSE [s EXCEPT
            !.activities = start_activity(s.activities, "Moving"),
            !.state = IF where = "In" THEN "MovingIn" ELSE "MovingOut",
            !.ticks_at_start = s.position,
            !.motion_start_time = t]

Stage_startup(s, t) ==
    LET s1 == IF ~s.powered THEN [s EXCEPT !.powered = TRUE] ELSE s
        s2 == IF ~s1.connected THEN Stage_connect(s1) ELSE s1
    IN  IF s2.state # Science
        THEN Stage_move([s2 EXCEPT !.activities = start_activity(s2.activities, "StaringUp")],
                  Science, t)
        ELSE s2

Stage_shutdown(s, t) ==
    IF ~s.powered THEN s
    ELSE LET s1 == IF ~(s.state = Guiding)
                   THEN Stage_move([s EXCEPT !.activities =
                                  start_activity(s.activities, "ShuttingDown")],
                             Guiding, t)
                   ELSE s
             s2 == Stage_disconnect(s1)
         IN  [s2 EXCEPT !.powered = FALSE]

\* The Moving branch of ontimer with the end of travel detected but the
\* position left as interpolated.
Stage_ontimer_motion_unclamped(s, dt) ==
    IF s.state = "MovingOut"
    THEN LET pos == s.ticks_at_start + dt * TICKS_PER_SECOND
         IN  IF pos > TICKS_WHEN_OUT
             THEN [pos |-> pos, state |-> "Out",
                   activities |-> end_activity(s.activities, "Moving")]
             ELSE [pos |-> pos, state |-> s.state, activities |-> s.activities]
    ELSE LET pos == s.ticks_at_start - dt * TICKS_PER_SECOND
         IN  IF pos <= TICKS_WHEN_IN
             THEN [pos |-> pos, state |-> "In",
                   activities |-> end_activity(s.activities, "Moving")]
             ELSE [pos |-> pos, state |-> s.state, activities |-> s.activities]

\* The Moving branch of ontimer interpolating from the current position
\* instead of ticks_at_start.
Stage_ontimer_motion_incremental(s, dt) ==
    IF s.state = "MovingOut"
    THEN LET pos == s.position + dt * TICKS_PER_SECOND
         IN  IF pos > TICKS_WHEN_OUT
             THEN [pos |-> TICKS_WHEN_OUT, state |-> "Out",
                   activities |-> end_activity(s.activities, "Moving")]
             ELSE [pos |-> pos, state |-> s.state, activities |-> s.activities]
    ELSE LET pos == s.position - dt * TICKS_PER_SECOND
         IN  IF pos <= TICKS_WHEN_IN
             THEN [pos |-> TICKS_WHEN_IN, state |-> "In",
                   activities |-> end_activity(s.activities, "Moving")]
             ELSE [pos |-> pos, state |-> s.state, activities |-> s.activities]

\* The Moving branch of ontimer up to "self.position = pos": <<pos, state, activities>>.
Stage_ontimer_motion(s, dt) ==
    IF s.state = "MovingOut"
    THEN LET pos == s.ticks_at_start + dt * TICKS_PER_SECOND
         IN  IF pos > TICKS_WHEN_OUT
             THEN [pos |-> TICKS_WHEN_OUT, state |-> "Out",
                   activities |-> end_activity(s.activities, "Moving")]
             ELSE [pos |-> pos, state |-> s.state, activities |-> s.activities]
    ELSE LET pos == s.ticks_at_start - dt * TICKS_PER_SECOND
         IN  IF pos <= TICKS_WHEN_IN
             THEN [pos |-> TICKS_WHEN_IN, state |-> "In",
                   activities |-> end_activity(s.activities, "Moving")]
             ELSE [pos |-> pos, state |-> s.state, activities |-> s.activities]

Stage_ontimer(s, t) ==
    IF ~s.connected THEN s
    ELSE IF is_active(s.activities, "Moving")
    THEN LET dt == Seconds(t - s.motion_start_time)
             m  == Stage_ontimer_motion(s, dt)
             s1 == Stage_position_set([s EXCEPT !.state = m.state,
                                          !.activities = m.activities], m.pos)
             s2 == IF is_active(s1.activities, "StaringUp") /\ s1.state = "In"
                   THEN [s1 EXCEPT !.activities = end_activity(s1.activities, "StaringUp")]
                   ELSE s1
         IN  IF is_active(s2.activities, "ShuttingDown") /\ s2.state = "Out"
             THEN [s2 EXCEPT !.activities = end_activity(s2.activities, "ShuttingDown")]
             ELSE s2
    ELSE s

\* A StageStatus object: an attribute that was not assigned is "unset".
NoStageStatus ==
    [ is_powered     |-> "unset",
      is_connected   |-> "unset",
      is_operational |-> "unset",
      reasons        |-> <<>> ]

\* Stage.status(); the reason 'state is X instead of Science' is kept without X.
Stage_status(s) ==
    IF s.powered
    THEN IF s.connected
         THEN [ is_powered     |-> "True",
                is_connected   |-> "True",
                is_operational |-> IF s.state = Science THEN "True" ELSE "False",
                reasons        |-> IF s.state # Science
                                   THEN <<"state is not Science">>
                                   ELSE <<>> ]
         ELSE [ is_powered     |-> "True",
                is_connected   |-> "False",
                is_operational |-> "unset",
                reasons        |-> <<"not-connected">> ]
    ELSE [ is_powered     |-> "False",
           is_connected   |-> "False",
           is_operational |-> "False",
           reasons        |-> <<"not-powered", "not-connected">> ]

\* Where the timer thread is in ontimer and a request thread is in move(): the
\* source line of the next statement ("idle": not in the method) and the locals.
RaceIdle ==
    [ tick   |-> "idle", dt |-> 0, pos |-> 0,
      move   |-> "idle", where |-> "In" ]

\* The next statement of Stage.ontimer, run by the timer thread at time t.
\* Reading motion_start_time before any move() assigned it raises, and the
\* exception ends the timer thread ("raised").
Stage_ontimer_step(s, r, t) ==
    CASE r.tick = "idle" ->
             IF s.connected /\ is_active(s.activities, "Moving")
             THEN IF s.motion_start_time = Unassigned
                  THEN [s |-> s, r |-> [r EXCEPT !.tick = "raised"]]
                  ELSE [s |-> s, r |-> [r EXCEPT !.tick = "217",
                                                 !.dt = Seconds(t - s.motion_start_time)]]
             ELSE [s |-> s, r |-> r]
      [] r.tick = "raised" ->
             [s |-> s, r |-> r]
      [] r.tick = "217" ->
             [s |-> s, r |-> [r EXCEPT !.tick = IF s.state = "MovingOut" THEN "218" ELSE "224"]]
      [] r.tick = "218" ->
             LET pos == s.ticks_at_start + r.dt * TICKS_PER_SECOND
             IN  IF pos > TICKS_WHEN_OUT
                 THEN [s |-> s, r |-> [r EXCEPT !.tick = "221", !.pos = TICKS_WHEN_OUT]]
                 ELSE [s |-> s, r |-> [r EXCEPT !.tick = "230", !.pos = pos]]
      [] r.tick = "221" ->
             [s |-> [s EXCEPT !.state = "Out"], r |-> [r EXCEPT !.tick = "222"]]
      [] r.tick = "224" ->
             LET pos == s.ticks_at_start - r.dt * TICKS_PER_SECOND
             IN  IF pos <= TICKS_WHEN_IN
                 THEN [s |-> s, r |-> [r EXCEPT !.tick = "227", !.pos = TICKS_WHEN_IN]]
                 ELSE [s |-> s, r |-> [r EXCEPT !.tick = "230", !.pos = pos]]
      [] r.tick = "227" ->
             [s |-> [s EXCEPT !.state = "In"], r |-> [r EXCEPT !.tick = "228"]]
      [] r.tick \in {"222", "228"} ->
             [s |-> [s EXCEPT !.activities = end_activity(@, "Moving")],
              r |-> [r EXCEPT !.tick = "230"]]
      [] r.tick = "230" ->
             [s |-> Stage_position_set(s, r.pos), r |-> [r EXCEPT !.tick = "231"]]
      [] r.tick = "231" ->
             [s |-> IF is_active(s.activities, "StaringUp") /\ s.state = "In"
                    THEN [s EXCEPT !.activities = end_activity(@, "StaringUp")]
                    ELSE s,
              r |-> [r EXCEPT !.tick = "233"]]
      [] r.tick = "233" ->
             [s |-> IF is_active(s.activities, "ShuttingDown") /\ s.state = "Out"
                    THEN [s EXCEPT !.activities = end_activity(@, "ShuttingDown")]
                    ELSE s,
              r |-> [r EXCEPT !.tick = "idle", !.dt = 0, !.pos = 0]]

\* The next statement of Stage.move(where), run by a request thread at time t.
Stage_move_step(s, r, where, t) ==
    CASE r.move = "idle" ->
             IF s.connected
             THEN [s |-> s, r |-> [r EXCEPT !.move = "249", !.where = where]]
             ELSE [s |-> s, r |-> r]
      [] r.move = "249" ->
             IF s.state = r.where
             THEN [s |-> s, r |-> [r EXCEPT !.move = "idle", !.where = "In"]]
             ELSE [s |-> s, r |-> [r EXCEPT !.move = "253"]]
      [] r.move = "253" ->
             [s |-> [s EXCEPT !.activities = start_activity(@, "Moving")],
              r |-> [r EXCEPT !.move = "254"]]
      [] r.move = "254" ->
             [s |-> [s EXCEPT !.state = IF r.where = "In" THEN "MovingIn" ELSE "MovingOut"],
              r |-> [r EXCEPT !.move = "255"]]
      [] r.move = "255" ->
             [s |-> [s EXCEPT !.ticks_at_start = s.position],
              r |-> [r EXCEPT !.move = "256"]]
      [] r.move = "256" ->
             [s |-> [s EXCEPT !.motion_start_time = t],
              r |-> [r EXCEPT !.move = "idle", !.where = "In"]]

----------------------------------------------------------------------------
(* Vendor driver (PWI4) and power switch, as seen by the Mount             *)

\* One more command sent to the vendor driver during the current call.
pw_command(m, cmd) == [m EXCEPT !.cmds = Append(@, cmd)]

pw_mount_connect(m) == [pw_command(m, "mount_connect") EXCEPT !.is_connected = TRUE]

pw_mount_enable(m, axis) ==
    IF axis = 0
    THEN [pw_command(m, "mount_enable_0") EXCEPT !.axis0_enabled = TRUE]
    ELSE [pw_command(m, "mount_enable_1") EXCEPT !.axis1_enabled = TRUE]

pw_mount_find_home(m) == [pw_command(m, "mount_find_home") EXCEPT !.is_slewing = TRUE]

pw_mount_park(m) == [pw_command(m, "mount_park") EXCEPT !.is_slewing = TRUE]

pw_mount_stop(m) == [pw_command(m, "mount_stop") EXCEPT !.is_slewing = FALSE]

\* The tracking commands set what the hardware is asked to do; the status
\* reports is_tracking once the hardware has followed (MountTrackingSettles).
pw_mount_tracking_on(m) ==
    [pw_command(m, "mount_tracking_on") EXCEPT !.tracking_wanted = TRUE]

pw_mount_tracking_off(m) ==
    [pw_command(m, "mount_tracking_off") EXCEPT !.tracking_wanted = FALSE]

\* SwitchedPowerDevice.power_on / power_off
Mount_power_on(m) == [m EXCEPT !.powered = TRUE]

Mount_power_off(m) == [m EXCEPT !.powered = FALSE]

\* A vendor call made while the PWI4 server is unreachable raises.
Mount_raise(m) == [m EXCEPT !.raised = TRUE]

\* Entry of a method call: nothing sent, nothing raised yet.
Mount_enter(m) == [m EXCEPT !.cmds = <<>>, !.raised = FALSE]

----------------------------------------------------------------------------
(* Mount: src/src/mount.py                                                 *)

MountActivities ==
    {"StartingUp", "ShuttingDown", "Slewing", "Parking", "Tracking", "FindingHome"}

\* Mount.detected (needs a successful poll)
Mount_detected(m) == m.is_connected

\* Mount.connected getter (needs a successful poll)
Mount_connected(m) ==
    /\ m.ascom_ok /\ m.ascom_connected
    /\ m.is_connected
    /\ m.axis0_enabled
    /\ m.axis1_enabled

\* Mount.connected setter
Mount_connected_set(m, value) ==
    LET m0 == [m EXCEPT !.errors = <<>>]
    IN  IF ~m0.powered THEN [m0 EXCEPT !.errors = <<"not powered">>]
        ELSE IF ~m0.pw_up THEN Mount_raise(m0)
        ELSE IF value
        THEN LET m1 == IF m0.ascom_ok
                       THEN [m0 EXCEPT !.ascom_connected = TRUE]
                       ELSE [m0 EXCEPT !.errors = Append(@, "could not ASCOM connect")]
                 m2 == IF ~m.is_connected THEN pw_mount_connect(m1) ELSE m1
             IN  IF ~m.axis0_enabled \/ m.axis1_enabled
                 THEN pw_mount_enable(pw_mount_enable(m2, 0), 1)
                 ELSE m2
        \* "st.pw" raises AttributeError, which the except clause logs
        ELSE m0

Mount_connect(m) ==
    Mount_connected_set(IF ~m.powered THEN Mount_power_on(m) ELSE m, TRUE)

Mount_disconnect(m) ==
    IF m.powered THEN Mount_connected_set(m, FALSE) ELSE m

Mount_park(m) ==
    IF ~m.pw_up THEN Mount_raise(m)
    ELSE IF Mount_connected(m)
    THEN pw_mount_park([m EXCEPT !.activities = start_activity(@, "Parking")])
    ELSE m

Mount_find_home(m) ==
    IF ~m.pw_up THEN Mount_raise(m)
    ELSE IF Mount_connected(m)
    THEN pw_mount_find_home([m EXCEPT !.activities = start_activity(@, "FindingHome")])
    ELSE m

Mount_startup(m) ==
    IF ~m.pw_up THEN Mount_raise(m)
    ELSE IF ~Mount_detected(m) THEN m
    ELSE LET m1 == IF ~Mount_connected(m) THEN Mount_connect(m) ELSE m
             m2 == [m1 EXCEPT !.activities = start_activity(@, "StartingUp"),
                              !.was_shut_down = FALSE]
         IN  Mount_find_home(pw_command(m2, "fans_on"))

Mount_shutdown(m) ==
    IF ~m.pw_up THEN Mount_raise(m)
    ELSE LET m1 == IF ~Mount_connected(m) THEN Mount_connect(m) ELSE m
             m2 == [m1 EXCEPT !.activities = start_activity(@, "ShuttingDown")]
         IN  Mount_power_off(Mount_park(pw_command(m2, "fans_off")))

Mount_ontimer(m) ==
    IF ~m.pw_up THEN Mount_raise(m)
    ELSE IF ~Mount_connected(m) THEN m
    ELSE LET m1 == IF is_active(m.activities, "FindingHome") /\ ~m.is_slewing
                   THEN [m EXCEPT !.activities =
                            end_activity(end_activity(@, "FindingHome"), "StartingUp")]
                   ELSE m
         IN  IF is_active(m1.activities, "Parking") /\ ~m.is_slewing
             THEN LET m2 == [m1 EXCEPT !.activities = end_activity(@, "Parking")]
                  IN  IF is_active(m2.activities, "ShuttingDown")
                      THEN Mount_power_off(
                               [m2 EXCEPT !.activities = end_activity(@, "ShuttingDown"),
                                          !.was_shut_down = TRUE])
                      ELSE m2
             ELSE m1

Mount_abort(m) ==
    LET m1 == [m EXCEPT !.activities = @ \ {"FindingHome", "StartingUp", "ShuttingDown"}]
    IN  IF ~m.pw_up THEN Mount_raise(m1)
        ELSE pw_mount_tracking_off(pw_mount_stop(m1))

\* Mount.ascom: the handle dispatched by the constructor.
Mount_ascom(m) == TRUE

\* Mount.why_not_operational, after its pw.status() has answered
Mount_why_not_operational(m) ==
    IF ~m.powered THEN <<"not powered">>
    ELSE IF ~Mount_detected(m) THEN <<"not detected">>
    ELSE IF m.was_shut_down THEN <<"shut down">>
    ELSE LET ascom_reasons ==
                 IF Mount_ascom(m)
                 THEN IF m.ascom_ok /\ ~m.ascom_connected
                      THEN <<"(ASCOM) - not connected">>
                      ELSE <<>>
                 ELSE <<"(ASCOM) - no handle">>
             pwi4_reasons ==
                 IF ~m.is_connected THEN <<"(PWI4) - not connected">>
                 ELSE (IF ~m.axis0_enabled THEN <<"(PWI4) - axis0 not enabled">> ELSE <<>>)
                      \o (IF ~m.axis1_enabled THEN <<"(PWI4) - axis1 not enabled">> ELSE <<>>)
         IN  ascom_reasons \o pwi4_reasons

\* Mount.operational, after its pw.status() has answered
Mount_operational(m) ==
    /\ m.powered
    /\ Mount_detected(m)
    /\ Mount_connected(m)
    /\ ~m.was_shut_down
    /\ Mount_ascom(m)
    /\ m.is_connected
    /\ m.axis0_enabled
    /\ m.axis1_enabled

\* Mount.start_tracking / stop_tracking up to the busy-wait loop: TRUE in
\* .waiting when the call has sent its command and goes on to poll.
Mount_tracking_request(m, on) ==
    IF ~m.pw_up THEN [m |-> Mount_raise(m), waiting |-> FALSE]
    ELSE IF ~Mount_connected(m) THEN [m |-> m, waiting |-> FALSE]
    ELSE [m |-> IF on THEN pw_mount_tracking_on(m) ELSE pw_mount_tracking_off(m),
          waiting |-> TRUE]

\* The busy-wait loop with its test dropped: the call returns after one poll.
Mount_tracking_poll_once(m, on) ==
    IF ~m.pw_up THEN [m |-> Mount_raise(m), waiting |-> FALSE]
    ELSE [m |-> [m EXCEPT !.raised = FALSE], waiting |-> FALSE]

\* One round of the busy-wait loop: sleep, poll, test.
Mount_tracking_poll(m, on) ==
    IF ~m.pw_up THEN [m |-> Mount_raise(m), waiting |-> FALSE]
    ELSE IF m.is_tracking = on THEN [m |-> [m EXCEPT !.raised = FALSE], waiting |-> FALSE]
    ELSE [m |-> m, waiting |-> TRUE]

\* The mount after Mount.__init__: powered, idle, never shut down; the vendor
\* driver reports whatever state the hardware was left in.
MountInits ==
    { [ powered         |-> TRUE,
        activities      |-> {},
        was_shut_down   |-> FALSE,
        errors          |-> <<>>,
        pw_up           |-> TRUE,
        ascom_ok        |-> TRUE,
        ascom_connected |-> FALSE,
        is_connected    |-> c,
        axis0_enabled   |-> c /\ a0,
        axis1_enabled   |-> c /\ a1,
        is_slewing      |-> FALSE,
        is_tracking     |-> FALSE,
        tracking_wanted |-> FALSE,
        cmds            |-> <<>>,
        raised          |-> FALSE ] : c \in BOOLEAN, a0 \in BOOLEAN, a1 \in BOOLEAN }

\* RepeatTimer(2, ontimer): the thread's loop calls the function at every
\* interval; an exception leaving the function ends the thread.
RepeatTimer_run(alive, m) == alive /\ ~m.raised

----------------------------------------------------------------------------
(* Vendor driver (PWI4) and power switch, as seen by the Focuser           *)

pw_focuser_enable(f) == [pw_command(f, "focuser_enable") EXCEPT !.is_enabled = TRUE]

pw_focuser_disable(f) == [pw_command(f, "focuser_disable") EXCEPT !.is_enabled = FALSE]

pw_focuser_connect(f) == [pw_command(f, "focuser_connect") EXCEPT !.is_connected = TRUE]

pw_focuser_disconnect(f) ==
    [pw_command(f, "focuser_disconnect") EXCEPT !.is_connected = FALSE]

pw_focuser_goto(f, position) ==
    [pw_command(f, "focuser_goto") EXCEPT !.hw_target = {position}]

pw_focuser_stop(f) == [pw_command(f, "focuser_stop") EXCEPT !.hw_target = {}]

Focuser_power_on(f) == [f EXCEPT !.powered = TRUE]

Focuser_power_off(f) == [f EXCEPT !.powered = FALSE]

Focuser_raise(f) == [f EXCEPT !.raised = TRUE]

Focuser_enter(f) == [f EXCEPT !.cmds = <<>>, !.raised = FALSE]

----------------------------------------------------------------------------
(* Focuser: src/src/focuser.py                                             *)

FocuserActivities == {"Moving", "StartingUp", "ShuttingDown"}

FocusDirection == {"In", "Out"}

lower_limit == 0

upper_limit == MaxStep

known_as_good_position == upper_limit \div 2

\* Focuser.connected setter
Focuser_connected_set(f, value) ==
    IF ~f.pw_up THEN Focuser_raise(f)
    ELSE IF value THEN pw_focuser_connect(pw_focuser_enable(f))
    ELSE pw_focuser_disable(pw_focuser_disconnect(f))

\* Focuser.connect, had it reset _was_shut_down as startup() does.
Focuser_connect_resets_shut_down(f) ==
    LET f1 == IF ~f.powered THEN Focuser_power_on(f) ELSE f
    IN  [Focuser_connected_set(f1, f1.ascom_ok) EXCEPT !.was_shut_down = FALSE]

Focuser_connect(f) ==
    LET f1 == IF ~f.powered THEN Focuser_power_on(f) ELSE f
    IN  Focuser_connected_set(f1, f1.ascom_ok)

Focuser_disconnect(f) == Focuser_connected_set(f, FALSE)

Focuser_goto(f, position) ==
    IF ~f.powered THEN f
    ELSE IF ~f.pw_up THEN Focuser_raise(f)
    ELSE IF ~f.is_connected THEN f
    ELSE IF f.position = position THEN f
    ELSE pw_focuser_goto([f EXCEPT !.target = {position},
                                   !.activities = start_activity(@, "Moving")],
                         position)

Focuser_startup(f) ==
    LET f1 == IF ~f.powered THEN Focuser_power_on(f) ELSE f
    IN  IF ~f1.pw_up THEN Focuser_raise(f1)
        ELSE LET f2 == IF ~f1.is_connected THEN Focuser_connect(f1) ELSE f1
                 f3 == [pw_focuser_enable(f2) EXCEPT !.was_shut_down = FALSE]
             IN  Focuser_goto(f3, known_as_good_position)

Focuser_shutdown(f) ==
    IF ~f.pw_up THEN Focuser_raise(f)
    ELSE LET f1 == IF f.is_connected THEN Focuser_disconnect(f) ELSE f
             f2 == pw_focuser_disable(f1)
             f3 == IF f2.powered THEN Focuser_power_off(f2) ELSE f2
         IN  [f3 EXCEPT !.was_shut_down = TRUE]

Focuser_move(f, amount, direction) ==
    IF ~f.pw_up THEN Focuser_raise(f)
    ELSE IF direction = "In"
    THEN IF f.position - amount < lower_limit THEN f
         ELSE Focuser_goto(f, f.position - amount)
    ELSE IF f.position + amount >= upper_limit THEN f
         ELSE Focuser_goto(f, f.position + amount)

Focuser_abort(f) ==
    LET f1 == IF is_active(f.activities, "Moving")
              THEN IF ~f.pw_up THEN Focuser_raise(f)
                   ELSE [pw_focuser_stop(f) EXCEPT
                            !.activities = end_activity(@, "Moving")]
              ELSE f
    IN  IF ~f1.raised /\ is_active(f1.activities, "StartingUp")
        THEN [f1 EXCEPT !.activities = end_activity(@, "StartingUp")]
        ELSE f1

Focuser_ontimer(f) ==
    IF is_active(f.activities, "Moving")
    THEN IF ~f.pw_up THEN Focuser_raise(f)
         ELSE IF f.target = {f.position}
         THEN [f EXCEPT !.activities = end_activity(@, "Moving"), !.target = {}]
         ELSE f
    ELSE f

\* Where the timer thread is in ontimer and a request thread is in goto(): the
\* source line of the next statement ("idle": not in the method) and the locals.
FocuserRaceIdle ==
    [ tick |-> "idle", read |-> 0, goto |-> "idle", position |-> 0 ]

\* The next statement of Focuser.ontimer, run by the timer thread. Line 240
\* reads the Moving flag, then self.position (a poll), then self.target.
Focuser_ontimer_step(f, r) ==
    CASE r.tick = "idle" ->
             IF is_active(f.activities, "Moving")
             THEN [f |-> f, r |-> [r EXCEPT !.tick = "240.position"]]
             ELSE [f |-> f, r |-> r]
      [] r.tick = "240.position" ->
             IF ~f.pw_up
             THEN [f |-> Focuser_raise(f), r |-> [r EXCEPT !.tick = "raised"]]
             ELSE [f |-> f, r |-> [r EXCEPT !.tick = "240.target", !.read = f.position]]
      [] r.tick = "240.target" ->
             IF f.target = {r.read}
             THEN [f |-> f, r |-> [r EXCEPT !.tick = "241"]]
             ELSE [f |-> f, r |-> [r EXCEPT !.tick = "idle", !.read = 0]]
      [] r.tick = "241" ->
             [f |-> [f EXCEPT !.activities = end_activity(@, "Moving")],
              r |-> [r EXCEPT !.tick = "242"]]
      [] r.tick = "242" ->
             [f |-> [f EXCEPT !.target = {}], r |-> [r EXCEPT !.tick = "idle", !.read = 0]]
      [] r.tick = "raised" ->
             [f |-> f, r |-> r]

\* The next statement of Focuser.goto(position), run by a request thread.
Focuser_goto_step(f, r, position) ==
    CASE r.goto = "idle" ->
             IF ~f.powered
             THEN [f |-> f, r |-> r]
             ELSE [f |-> Focuser_enter(f),
                   r |-> [r EXCEPT !.goto = "168", !.position = position]]
      [] r.goto = "168" ->
             IF ~f.pw_up
             THEN [f |-> Focuser_raise(f), r |-> [r EXCEPT !.goto = "idle", !.position = 0]]
             ELSE IF ~f.is_connected
             THEN [f |-> f, r |-> [r EXCEPT !.goto = "idle", !.position = 0]]
             ELSE [f |-> f, r |-> [r EXCEPT !.goto = "174"]]
      [] r.goto = "174" ->
             IF ~f.pw_up
             THEN [f |-> Focuser_raise(f), r |-> [r EXCEPT !.goto = "idle", !.position = 0]]
             ELSE IF f.position = r.position
             THEN [f |-> f, r |-> [r EXCEPT !.goto = "idle", !.position = 0]]
             ELSE [f |-> f, r |-> [r EXCEPT !.goto = "178"]]
      [] r.goto = "178" ->
             [f |-> [f EXCEPT !.target = {r.position}], r |-> [r EXCEPT !.goto = "179"]]
      [] r.goto = "179" ->
             [f |-> [f EXCEPT !.activities = start_activity(@, "Moving")],
              r |-> [r EXCEPT !.goto = "180"]]
      [] r.goto = "180" ->
             IF ~f.pw_up
             THEN [f |-> Focuser_raise(f), r |-> [r EXCEPT !.goto = "idle", !.position = 0]]
             ELSE [f |-> pw_focuser_goto(f, r.position),
                   r |-> [r EXCEPT !.goto = "idle", !.position = 0]]

\* Focuser.detected (needs a successful poll)
Focuser_detected(f) == f.exists

\* Focuser.operational, after its pw.status() has answered
Focuser_operational(f) ==
    /\ ~f.was_shut_down
    /\ f.powered
    /\ f.exists
    /\ f.is_connected

\* Focuser.why_not_operational with "not detected" put before "shut down".
Focuser_why_not_operational_detection_first(f) ==
    IF ~f.powered THEN <<"not powered">>
    ELSE (IF ~Focuser_detected(f) THEN <<"not detected">>
          ELSE IF ~f.exists THEN <<"(PWI4) - does not exist">>
          ELSE IF ~f.is_connected THEN <<"(PWI4) - not connected">>
          ELSE <<>>)
         \o (IF f.was_shut_down THEN <<"shut down">> ELSE <<>>)

\* Focuser.why_not_operational, its polls having answered
Focuser_why_not_operational(f) ==
    IF ~f.powered THEN <<"not powered">>
    ELSE (IF f.was_shut_down THEN <<"shut down">> ELSE <<>>)
         \o (IF ~Focuser_detected(f) THEN <<"not detected">>
             ELSE IF ~f.exists THEN <<"(PWI4) - does not exist">>
             ELSE IF ~f.is_connected THEN <<"(PWI4) - not connected">>
             ELSE <<>>)

\* The focuser after Focuser.__init__ with the vendor driver and ASCOM
\* answering: powered and connected by the constructor's connect().
FocuserInit ==
    [ powered       |-> TRUE,
      activities    |-> {},
      was_shut_down |-> FALSE,
      target        |-> {},
      pw_up         |-> TRUE,
      ascom_ok      |-> TRUE,
      exists        |-> TRUE,
      is_connected  |-> TRUE,
      is_enabled    |-> TRUE,
      position      |-> 0,
      hw_target     |-> {},
      cmds          |-> <<>>,
      raised        |-> FALSE ]

----------------------------------------------------------------------------
(* Unit: src/Unit.py                                                       *)

Subsystems == {"mount", "camera", "cover", "stage"}

\* The conjunction of UnitStatus.__init__, evaluated left to right; an
\* attribute that was not assigned raises AttributeError when it is read.
UnitStatus_subsystem(u, name, rest) ==
    IF ~u.is_on[name] THEN "AttributeError"
    ELSE IF ~u.operational[name] THEN "False"
    ELSE rest

UnitStatus_is_operational(u) ==
    IF ~u.power_operational THEN "False"
    ELSE UnitStatus_subsystem(u, "mount",
         UnitStatus_subsystem(u, "camera",
         UnitStatus_subsystem(u, "cover",
         UnitStatus_subsystem(u, "stage", "True"))))

\* What Unit.connected reads and what the connected setter writes: each
\* subsystem's connection, Unit._connected, the subsystems whose "connected"
\* the last call assigned (with the value assigned) and the last call.
UnitLinkInit ==
    [ connected  |-> [n \in Subsystems |-> FALSE],
      _connected |-> FALSE,
      assigned   |-> {},
      last       |-> "init" ]

\* subsystem.connected = value: a subsystem's setter acts only when its
\* socket is On (Stage.connected, Mount.connected setters).
Subsystem_connected_set(u, l, n, value) ==
    [l EXCEPT !.connected[n] = IF u.is_on[n] THEN value ELSE @,
              !.assigned = @ \cup {<<n, value>>}]

\* Unit.connected (getter): no reason collected.
Unit_connected(l) == \A n \in Subsystems : l.connected[n]

\* Unit.connected (setter)
Unit_connected_set(u, l, value) ==
    LET l0 == [l EXCEPT !.assigned = {}]
        l1 == Subsystem_connected_set(u, l0, "mount", TRUE)
        l2 == Subsystem_connected_set(u, l1, "camera", TRUE)
        l3 == Subsystem_connected_set(u, l2, "cover", TRUE)
        l4 == Subsystem_connected_set(u, l3, "stage", TRUE)
    IN  [l4 EXCEPT !._connected = value]

Unit_connect(u, l) == Unit_connected_set(u, l, TRUE)

Unit_disconnect(u, l) == Unit_connected_set(u, l, FALSE)

UnitInit ==
    [ power_operational |-> TRUE,
      is_on             |-> [n \in Subsystems |-> FALSE],
      operational       |-> [n \in Subsystems |-> FALSE] ]

----------------------------------------------------------------------------
(* Stage actions                                                           *)

StageConnect ==
    /\ stg' = Stage_connect(stg)
    /\ stgLast' = [op |-> "connect", arg |-> "-"]
    /\ stgStatus' = NoStageStatus
    /\ UNCHANGED <<now, stgRace, notStage>>

StageDisconnect ==
    /\ stg' = Stage_disconnect(stg)
    /\ stgLast' = [op |-> "disconnect", arg |-> "-"]
    /\ stgStatus' = NoStageStatus
    /\ UNCHANGED <<now, stgRace, notStage>>

StageStartup ==
    /\ stg' = Stage_startup(stg, now)
    /\ stgLast' = [op |-> "startup", arg |-> "-"]
    /\ stgStatus' = NoStageStatus
    /\ UNCHANGED <<now, stgRace, notStage>>

StageShutdown ==
    /\ stg' = Stage_shutdown(stg, now)
    /\ stgLast' = [op |-> "shutdown",
                   arg |-> IF stg.powered /\ stg.connected /\ stg.state # Guiding
                           THEN "moving" ELSE "-"]
    /\ stgStatus' = NoStageStatus
    /\ UNCHANGED <<now, stgRace, notStage>>

StageMove ==
    \E where \in StageState :
        /\ stg' = Stage_move(stg, where, now)
        /\ stgLast' = [op |-> "move", arg |-> where]
        /\ stgStatus' = NoStageStatus
        /\ UNCHANGED <<now, stgRace, notStage>>

\* One firing of the RepeatTimer(1, ontimer) thread.
StageOntimer ==
    /\ stg' = Stage_ontimer(stg, now)
    /\ stgLast' = [op |-> "ontimer", arg |-> "-"]
    /\ stgStatus' = NoStageStatus
    /\ UNCHANGED <<now, stgRace, notStage>>

\* Power.power(SocketId('Stage'), ...) issued by another client of the power switch.
StageSocketOn ==
    /\ ~stg.powered
    /\ stg' = [stg EXCEPT !.powered = TRUE]
    /\ stgLast' = [op |-> "socket", arg |-> "-"]
    /\ stgStatus' = NoStageStatus
    /\ UNCHANGED <<now, stgRace, notStage>>

StageSocketOff ==
    /\ stg.powered
    /\ stg' = [stg EXCEPT !.powered = FALSE]
    /\ stgLast' = [op |-> "socket", arg |-> "-"]
    /\ stgStatus' = NoStageStatus
    /\ UNCHANGED <<now, stgRace, notStage>>

\* Stage.status()
StageStatusCall ==
    /\ stgStatus' = Stage_status(stg)
    /\ stgLast' = [op |-> "status", arg |-> "-"]
    /\ UNCHANGED <<stg, now, stgRace, notStage>>

\* The timer thread runs the next statement of ontimer.
StageOntimerStep ==
    LET n == Stage_ontimer_step(stg, stgRace, now)
    IN  /\ stg' = n.s
        /\ stgRace' = n.r
        /\ stgLast' = IF n.r.tick = "idle"
                      THEN [op |-> "ontimer", arg |-> "-"]
                      ELSE stgLast
        /\ UNCHANGED <<now, stgStatus, notStage>>

\* A request thread runs the next statement of move(where).
StageMoveStep ==
    \E where \in {"In", "Out"} :
        LET n == Stage_move_step(stg, stgRace, where, now)
        IN  /\ stg' = n.s
            /\ stgRace' = n.r
            /\ stgLast' = IF n.r.move = "idle"
                          THEN [op |-> "move",
                                arg |-> IF stgRace.move = "idle" THEN where
                                        ELSE stgRace.where]
                          ELSE stgLast
            /\ UNCHANGED <<now, stgStatus, notStage>>

\* The wall clock advances by ClockStep seconds.
ClockTick ==
    /\ now + ClockStep <= MaxTime
    /\ now' = now + ClockStep
    /\ UNCHANGED <<stg, stgLast, stgStatus, stgRace, notStage>>

----------------------------------------------------------------------------
(* Mount actions                                                           *)

MountDo(m, name) ==
    /\ mnt' = m
    /\ mntLast' = name
    /\ mntWhy' = <<>>
    /\ UNCHANGED <<mntTimerAlive, mntReq, notMount>>

MountConnect == MountDo(Mount_connect(Mount_enter(mnt)), "connect")

MountDisconnect == MountDo(Mount_disconnect(Mount_enter(mnt)), "disconnect")

MountStartup == MountDo(Mount_startup(Mount_enter(mnt)), "startup")

MountShutdown == MountDo(Mount_shutdown(Mount_enter(mnt)), "shutdown")

MountPark == MountDo(Mount_park(Mount_enter(mnt)), "park")

MountFindHome == MountDo(Mount_find_home(Mount_enter(mnt)), "find_home")

MountAbort == MountDo(Mount_abort(Mount_enter(mnt)), "abort")

\* One firing of the 'mount-timer-thread'.
MountOntimer ==
    /\ mntTimerAlive
    /\ mnt' = Mount_ontimer(Mount_enter(mnt))
    /\ mntLast' = "ontimer"
    /\ mntTimerAlive' = RepeatTimer_run(mntTimerAlive, mnt')
    /\ mntWhy' = <<>>
    /\ UNCHANGED <<mntReq, notMount>>

\* Mount.why_not_operational: its first statement polls the vendor driver.
MountWhyNotOperational ==
    /\ mnt' = IF ~mnt.pw_up THEN Mount_raise(Mount_enter(mnt)) ELSE Mount_enter(mnt)
    /\ mntWhy' = IF ~mnt.pw_up THEN <<>> ELSE Mount_why_not_operational(mnt)
    /\ mntLast' = "why_not_operational"
    /\ UNCHANGED <<mntTimerAlive, mntReq, notMount>>

\* A request thread calls start_tracking() or stop_tracking(); with the command
\* sent, the thread is inside the busy-wait loop.
MountTrackingRequest ==
    /\ mntReq = "none"
    /\ \E on \in BOOLEAN :
          LET r    == Mount_tracking_request(Mount_enter(mnt), on)
              name == IF on THEN "start_tracking" ELSE "stop_tracking"
          IN  /\ mnt' = r.m
              /\ mntReq' = IF r.waiting THEN name ELSE "none"
              /\ mntLast' = IF r.waiting THEN mntLast ELSE name
    /\ mntWhy' = <<>>
    /\ UNCHANGED <<mntTimerAlive, notMount>>

\* The request thread wakes up from time.sleep(1) and polls; when the loop
\* ends the call is over, by a return or by the exception of the failed poll.
MountTrackingPoll ==
    /\ mntReq # "none"
    /\ LET r == Mount_tracking_poll(mnt, mntReq = "start_tracking")
       IN  /\ mnt' = r.m
           /\ mntReq' = IF r.waiting THEN mntReq ELSE "none"
           /\ mntLast' = IF r.waiting THEN mntLast ELSE mntReq
           /\ mntWhy' = IF r.waiting THEN mntWhy ELSE <<>>
    /\ UNCHANGED <<mntTimerAlive, notMount>>

\* The hardware follows the last tracking command.
MountTrackingSettles ==
    /\ mnt.is_tracking # mnt.tracking_wanted
    /\ mnt' = [mnt EXCEPT !.is_tracking = mnt.tracking_wanted]
    /\ UNCHANGED <<mntLast, mntTimerAlive, mntWhy, mntReq, notMount>>

\* The hardware finishes the slew it was commanded (homing, parking).
MountSlewDone ==
    /\ mnt.is_slewing
    /\ mnt' = [mnt EXCEPT !.is_slewing = FALSE]
    /\ UNCHANGED <<mntLast, mntTimerAlive, mntWhy, mntReq, notMount>>

\* The PWI4 server becomes unreachable, or reachable again.
MountVendorDown ==
    /\ mnt.pw_up
    /\ mnt' = [mnt EXCEPT !.pw_up = FALSE]
    /\ UNCHANGED <<mntLast, mntTimerAlive, mntWhy, mntReq, notMount>>

MountVendorUp ==
    /\ ~mnt.pw_up
    /\ mnt' = [mnt EXCEPT !.pw_up = TRUE]
    /\ UNCHANGED <<mntLast, mntTimerAlive, mntWhy, mntReq, notMount>>

\* The ASCOM driver starts or stops answering.
MountAscomFlip ==
    /\ mnt' = [mnt EXCEPT !.ascom_ok = ~@]
    /\ UNCHANGED <<mntLast, mntTimerAlive, mntWhy, mntReq, notMount>>

\* An unpowered mount drops off the vendor driver.
MountLinkLost ==
    /\ ~mnt.powered
    /\ mnt.is_connected
    /\ mnt' = [mnt EXCEPT !.is_connected = FALSE, !.axis0_enabled = FALSE,
                          !.axis1_enabled = FALSE, !.is_slewing = FALSE,
                          !.is_tracking = FALSE, !.tracking_wanted = FALSE]
    /\ UNCHANGED <<mntLast, mntTimerAlive, mntWhy, mntReq, notMount>>

\* The mount's socket is switched by another client of the power switch.
MountSocketSwitch ==
    /\ mnt' = [mnt EXCEPT !.powered = ~@]
    /\ UNCHANGED <<mntLast, mntTimerAlive, mntWhy, mntReq, notMount>>

----------------------------------------------------------------------------
(* Focuser actions                                                         *)

FocuserDo(f, name) ==
    /\ foc' = f
    /\ focLast' = name
    /\ focWhy' = <<>>
    /\ UNCHANGED <<focTimerAlive, focRace, notFocuser>>

FocuserConnect == FocuserDo(Focuser_connect(Focuser_enter(foc)), "connect")

FocuserDisconnect == FocuserDo(Focuser_disconnect(Focuser_enter(foc)), "disconnect")

FocuserStartup == FocuserDo(Focuser_startup(Focuser_enter(foc)), "startup")

FocuserShutdown == FocuserDo(Focuser_shutdown(Focuser_enter(foc)), "shutdown")

FocuserGoto ==
    \E position \in (lower_limit - 1)..(upper_limit + 1) :
        FocuserDo(Focuser_goto(Focuser_enter(foc), position), "goto")

FocuserMove ==
    \E amount \in (0 - 1)..MaxAmount, direction \in FocusDirection :
        FocuserDo(Focuser_move(Focuser_enter(foc), amount, direction), "move")

FocuserAbort == FocuserDo(Focuser_abort(Focuser_enter(foc)), "abort")

\* One firing of the 'focuser-timer-thread'.
FocuserOntimer ==
    /\ focTimerAlive
    /\ foc' = Focuser_ontimer(Focuser_enter(foc))
    /\ focLast' = "ontimer"
    /\ focTimerAlive' = RepeatTimer_run(focTimerAlive, foc')
    /\ focWhy' = <<>>
    /\ UNCHANGED <<focRace, notFocuser>>

\* Focuser.why_not_operational: a powered focuser is polled for detection.
FocuserWhyNotOperational ==
    /\ foc' = IF foc.powered /\ ~foc.pw_up
              THEN Focuser_raise(Focuser_enter(foc))
              ELSE Focuser_enter(foc)
    /\ focWhy' = IF foc.powered /\ ~foc.pw_up THEN <<>> ELSE Focuser_why_not_operational(foc)
    /\ focLast' = "why_not_operational"
    /\ UNCHANGED <<focTimerAlive, focRace, notFocuser>>

\* The vendor driver starts or stops listing a focuser.
FocuserExistsFlip ==
    /\ foc' = [foc EXCEPT !.exists = ~@]
    /\ UNCHANGED <<focLast, focTimerAlive, focWhy, focRace, notFocuser>>

\* The hardware moves one step towards the commanded position.
FocuserHwStep ==
    /\ foc.powered /\ foc.is_connected
    /\ \E p \in foc.hw_target :
          LET next == IF p > foc.position THEN foc.position + 1 ELSE foc.position - 1
          IN  /\ p # foc.position
              /\ next \in lower_limit..upper_limit
              /\ foc' = [foc EXCEPT !.position = next]
    /\ UNCHANGED <<focLast, focTimerAlive, focWhy, focRace, notFocuser>>

\* The timer thread runs the next statement of ontimer.
FocuserOntimerStep ==
    LET n == Focuser_ontimer_step(foc, focRace)
    IN  /\ focTimerAlive
        /\ foc' = n.f
        /\ focRace' = n.r
        /\ focLast' = IF n.r.tick = "idle" THEN "ontimer" ELSE focLast
        /\ focTimerAlive' = (n.r.tick # "raised")
        /\ UNCHANGED <<focWhy, notFocuser>>

\* A request thread runs the next statement of goto(position).
FocuserGotoStep ==
    \E position \in lower_limit..upper_limit :
        LET n == Focuser_goto_step(foc, focRace, position)
        IN  /\ foc' = n.f
            /\ focRace' = n.r
            /\ focLast' = IF n.r.goto = "idle" THEN "goto" ELSE focLast
            /\ UNCHANGED <<focTimerAlive, focWhy, notFocuser>>

FocuserVendorDown ==
    /\ foc.pw_up
    /\ foc' = [foc EXCEPT !.pw_up = FALSE]
    /\ UNCHANGED <<focLast, focTimerAlive, focWhy, focRace, notFocuser>>

FocuserVendorUp ==
    /\ ~foc.pw_up
    /\ foc' = [foc EXCEPT !.pw_up = TRUE]
    /\ UNCHANGED <<focLast, focTimerAlive, focWhy, focRace, notFocuser>>

FocuserAscomFlip ==
    /\ foc' = [foc EXCEPT !.ascom_ok = ~@]
    /\ UNCHANGED <<focLast, focTimerAlive, focWhy, focRace, notFocuser>>

\* An unpowered focuser drops off the vendor driver.
FocuserLinkLost ==
    /\ ~foc.powered
    /\ foc.is_connected
    /\ foc' = [foc EXCEPT !.is_connected = FALSE, !.is_enabled = FALSE, !.hw_target = {}]
    /\ UNCHANGED <<focLast, focTimerAlive, focWhy, focRace, notFocuser>>

FocuserSocketSwitch ==
    /\ foc' = [foc EXCEPT !.powered = ~@]
    /\ UNCHANGED <<focLast, focTimerAlive, focWhy, focRace, notFocuser>>

----------------------------------------------------------------------------
(* Unit actions                                                            *)

UnitSocketSwitch ==
    \E n \in Subsystems :
        /\ unt' = [unt EXCEPT !.is_on[n] = ~@]
        /\ UNCHANGED <<untStatus, untLink, notUnit>>

UnitVerdictChange ==
    \E n \in Subsystems :
        /\ unt' = [unt EXCEPT !.operational[n] = ~@]
        /\ UNCHANGED <<untStatus, untLink, notUnit>>

UnitPowerVerdictChange ==
    /\ unt' = [unt EXCEPT !.power_operational = ~@]
    /\ UNCHANGED <<untStatus, untLink, notUnit>>

\* Unit.status()
UnitConnect ==
    /\ untLink' = [Unit_connect(unt, untLink) EXCEPT !.last = "connect"]
    /\ UNCHANGED <<unt, untStatus, notUnit>>

UnitDisconnect ==
    /\ untLink' = [Unit_disconnect(unt, untLink) EXCEPT !.last = "disconnect"]
    /\ UNCHANGED <<unt, untStatus, notUnit>>

\* A subsystem loses its connection (its own disconnect(), its hardware).
UnitLinkDrop ==
    \E n \in Subsystems :
        /\ untLink.connected[n]
        /\ untLink' = [untLink EXCEPT !.connected[n] = FALSE, !.last = "drop"]
        /\ UNCHANGED <<unt, untStatus, notUnit>>

UnitStatusCall ==
    /\ untStatus' = [is_operational |-> UnitStatus_is_operational(unt), of |-> unt]
    /\ UNCHANGED <<unt, untLink, notUnit>>

----------------------------------------------------------------------------
(* Specifications                                                          *)

StageStart ==
    /\ stg = StageInit
    /\ now = 0
    /\ stgLast = [op |-> "init", arg |-> "-"]
    /\ stgStatus = NoStageStatus
    /\ stgRace = RaceIdle

MountStart ==
    /\ mntLast = "init"
    /\ mntTimerAlive = TRUE
    /\ mntWhy = <<>>
    /\ mntReq = "none"

FocuserStart ==
    /\ foc = FocuserInit
    /\ focLast = "init"
    /\ focTimerAlive = TRUE
    /\ focWhy = <<>>
    /\ focRace = FocuserRaceIdle

UnitStart ==
    /\ unt = UnitInit
    /\ untStatus = [is_operational |-> "none", of |-> UnitInit]
    /\ untLink = UnitLinkInit

MountInit0 == CHOOSE m \in MountInits : ~m.is_connected

InitStage == StageStart /\ FocuserStart /\ MountStart /\ mnt = MountInit0 /\ UnitStart

\* The stage after a cold startup(), with the timer thread and a request thread.
InitStageRace ==
    /\ stg = Stage_startup(StageInit, 0)
    /\ now = 0
    /\ stgLast = [op |-> "startup", arg |-> "-"]
    /\ stgStatus = NoStageStatus
    /\ stgRace = RaceIdle
    /\ FocuserStart /\ MountStart /\ mnt = MountInit0 /\ UnitStart

InitMount == StageStart /\ FocuserStart /\ MountStart /\ mnt \in MountInits /\ UnitStart

InitFocuser == StageStart /\ FocuserStart /\ MountStart /\ mnt = MountInit0 /\ UnitStart

\* The focuser after its constructor, with the timer thread and a request thread.
InitFocuserRace == InitFocuser

InitUnit == StageStart /\ FocuserStart /\ MountStart /\ mnt = MountInit0 /\ UnitStart

NextStage ==
    \/ StageConnect
    \/ StageDisconnect
    \/ StageStartup
    \/ StageShutdown
    \/ StageMove
    \/ StageOntimer
    \/ StageStatusCall
    \/ StageSocketOn
    \/ StageSocketOff
    \/ ClockTick

NextStageRace ==
    \/ StageOntimerStep
    \/ StageMoveStep
    \/ ClockTick

NextMount ==
    \/ MountConnect
    \/ MountDisconnect
    \/ MountStartup
    \/ MountShutdown
    \/ MountPark
    \/ MountFindHome
    \/ MountAbort
    \/ MountOntimer
    \/ MountWhyNotOperational
    \/ MountTrackingRequest
    \/ MountTrackingPoll
    \/ MountTrackingSettles
    \/ MountSlewDone
    \/ MountVendorDown
    \/ MountVendorUp
    \/ MountAscomFlip
    \/ MountLinkLost
    \/ MountSocketSwitch

NextFocuser ==
    \/ FocuserConnect
    \/ FocuserDisconnect
    \/ FocuserStartup
    \/ FocuserShutdown
    \/ FocuserGoto
    \/ FocuserMove
    \/ FocuserAbort
    \/ FocuserOntimer
    \/ FocuserWhyNotOperational
    \/ FocuserExistsFlip
    \/ FocuserHwStep
    \/ FocuserVendorDown
    \/ FocuserVendorUp
    \/ FocuserAscomFlip
    \/ FocuserLinkLost
    \/ FocuserSocketSwitch

NextFocuserRace ==
    \/ FocuserOntimerStep
    \/ FocuserGotoStep
    \/ FocuserHwStep

NextUnit ==
    \/ UnitSocketSwitch
    \/ UnitVerdictChange
    \/ UnitPowerVerdictChange
    \/ UnitStatusCall

NextUnitLink ==
    \/ UnitConnect
    \/ UnitDisconnect
    \/ UnitLinkDrop
    \/ UnitSocketSwitch

SpecStage == InitStage /\ [][NextStage]_vars

\* The Stage with its timer thread and one request thread calling move(),
\* statement by statement.
SpecStageRace == InitStageRace /\ [][NextStageRace]_vars

SpecMount == InitMount /\ [][NextMount]_vars

SpecFocuser == InitFocuser /\ [][NextFocuser]_vars

\* The Focuser with its timer thread, one request thread calling goto(),
\* statement by statement, and the hardware moving.
SpecFocuserRace == InitFocuserRace /\ [][NextFocuserRace]_vars

SpecUnit == InitUnit /\ [][NextUnit]_vars

\* The Unit's connect() and disconnect() among socket switches and lost
\* connections.
SpecUnitLink == InitUnit /\ [][NextUnitLink]_vars

\* The Mount specification with the timer thread running and the hardware
\* finishing its slews.
SpecMountTimerFair ==
    /\ SpecMount
    /\ WF_vars(MountOntimer)
    /\ WF_vars(MountSlewDone)

\* The Mount specification with the request thread's busy-wait loop running.
SpecMountFair ==
    /\ SpecMount
    /\ WF_vars(MountTrackingPoll)

\* The Stage specification with the timer thread and the clock running.
SpecStageFair ==
    /\ SpecStage
    /\ WF_vars(StageOntimer)
    /\ WF_vars(ClockTick)

----------------------------------------------------------------------------
(* Properties                                                              *)

Min(a, b) == IF a <= b THEN a ELSE b

Max(a, b) == IF a >= b THEN a ELSE b

\* C1: in every reachable state, the Stage is connected only if its socket is On.
C1_ConnectedOnlyWhilePowered == stg.connected => stg.powered

\* Seconds the stage needs for its whole travel.
TravelSeconds == (TICKS_WHEN_OUT - TICKS_WHEN_IN) \div TICKS_PER_SECOND + 1

\* C2: once shutdown() has been called on a powered, connected stage whose
\* state is not Out (with the time of a whole travel still to come), the stage
\* eventually is in state Out with Moving and ShuttingDown both cleared,
\* unless an operation other than the reconciliation tick comes in between.
C2_ShutdownCompletes ==
    (stgLast.op = "shutdown" /\ stgLast.arg = "moving" /\ now + TravelSeconds <= MaxTime)
        ~> \/ /\ stg.state = "Out"
              /\ ~is_active(stg.activities, "Moving")
              /\ ~is_active(stg.activities, "ShuttingDown")
           \/ stgLast.op \notin {"shutdown", "ontimer"}

\* C3: when connect() returns with the socket On, the stage is connected, its
\* state is In and its position is TICKS_WHEN_IN.
C3_ConnectResult ==
    (stgLast.op = "connect" /\ stg.powered)
        => (stg.connected /\ stg.state = "In" /\ stg.position = TICKS_WHEN_IN)

\* C4: Unit.status() yields is_operational true iff the power status is
\* operational and every subsystem is powered and operational, and yields
\* false whenever a subsystem is unpowered.
C4_CompositeOperational ==
    LET u == untStatus.of
        all_ok == u.power_operational
                  /\ \A n \in Subsystems : u.is_on[n] /\ u.operational[n]
    IN  untStatus.is_operational # "none"
            => /\ (untStatus.is_operational = "True") <=> all_ok
               /\ (\E n \in Subsystems : ~u.is_on[n])
                      => untStatus.is_operational = "False"

C6_SecondStartupDoesNothing ==
    [][ /\ (stgLast.op = "startup" /\ StageStartup)
            => /\ stg'.activities = stg.activities
               /\ stg'.state = stg.state
               /\ stg'.ticks_at_start = stg.ticks_at_start
               /\ stg'.motion_start_time = stg.motion_start_time
        /\ (mntLast = "startup" /\ ~mnt.raised /\ MountStartup)
            => /\ mnt'.activities = mnt.activities
               /\ mnt'.cmds = <<>> ]_vars

\* C7: abort() with no activity active changes nothing of the Mount or the
\* Focuser and sends no command to the vendor driver.
C7_IdleAbortIsNoOp ==
    [][ /\ (MountAbort /\ mnt.activities = {})
            => mnt' = Mount_enter(mnt)
        /\ (FocuserAbort /\ foc.activities = {})
            => foc' = Focuser_enter(foc) ]_vars

\* C8: when Mount.abort() has returned, none of StartingUp, ShuttingDown,
\* Slewing, Parking, FindingHome is active and a stop command was sent.
C8_AbortClearsInFlight ==
    (mntLast = "abort" /\ ~mnt.raised)
        => /\ mnt.activities \cap
                  {"StartingUp", "ShuttingDown", "Slewing", "Parking", "FindingHome"} = {}
           /\ \E i \in 1..Len(mnt.cmds) : mnt.cmds[i] = "mount_stop"

\* C9: move(target), target In or Out, on a connected stage already in state
\* target changes nothing: state, position, activities, ticks_at_start and
\* motion_start_time stay as they are.
C9_MoveToCurrentIsNoOp ==
    [][ (/\ stgLast'.op = "move"
         /\ stgLast'.arg \in {"In", "Out"}
         /\ stg.connected
         /\ stg.state = stgLast'.arg)
            => stg' = stg ]_vars

C9_Witness ==
    /\ stgLast.op = "move"
    /\ stgLast.arg = "Out"
    /\ stg.connected
    /\ stg.state = "Out"
    /\ ~is_active(stg.activities, "Moving")

\* C10: for a connected stage with Moving active, a tick at elapsed time e puts
\* the position at min(ticks_at_start + e*TICKS_PER_SECOND, TICKS_WHEN_OUT) in
\* state MovingOut and at max(ticks_at_start - e*TICKS_PER_SECOND, TICKS_WHEN_IN)
\* in state MovingIn; from ticks_at_start = 100 moving out, e = 5 gives 5100
\* and e = 30 gives 30000, state Out and Moving cleared.
C10_TickInterpolation ==
    \A e \in 0..MaxTime :
        LET after == Stage_ontimer(stg, stg.motion_start_time + e)
        IN  (stg.connected /\ is_active(stg.activities, "Moving"))
                => /\ stg.state = "MovingOut"
                        => after.position =
                               Min(stg.ticks_at_start + e * TICKS_PER_SECOND, TICKS_WHEN_OUT)
                   /\ stg.state = "MovingIn"
                        => after.position =
                               Max(stg.ticks_at_start - e * TICKS_PER_SECOND, TICKS_WHEN_IN)
                   /\ (stg.state = "MovingOut" /\ stg.ticks_at_start = 100 /\ e = 5)
                        => after.position = 5100
                   /\ (stg.state = "MovingOut" /\ stg.ticks_at_start = 100 /\ e = 30)
                        => /\ after.position = 30000
                           /\ after.state = "Out"
                           /\ ~is_active(after.activities, "Moving")

C10_Witness ==
    /\ stgLast.op = "ontimer"
    /\ stg.connected
    /\ stg.ticks_at_start = 100
    /\ now - stg.motion_start_time = 30
    /\ stg.position = 30000
    /\ stg.state = "Out"
    /\ ~is_active(stg.activities, "Moving")

\* C11: a tick of a connected, moving stage never leaves the position at
\* TICKS_WHEN_OUT with the state still MovingOut, nor at TICKS_WHEN_IN with the
\* state still MovingIn: the tick that reaches the clamp value also sets the
\* final state (and with it clears Moving).
C11_ClampEndsMotion ==
    [][ (StageOntimer /\ stg.connected /\ is_active(stg.activities, "Moving"))
            => /\ ~(stg'.position = TICKS_WHEN_OUT /\ stg'.state = "MovingOut")
               /\ ~(stg'.position = TICKS_WHEN_OUT /\ is_active(stg'.activities, "Moving")
                        /\ stg.state = "MovingOut")
               /\ ~(stg'.position = TICKS_WHEN_IN /\ stg'.state = "MovingIn") ]_vars

\* C12: while the stage is connected its position is within
\* TICKS_WHEN_IN..TICKS_WHEN_OUT, and in every state it is within
\* MIN_TICKS..MAX_TICKS.
C12_PositionWithinTravel ==
    /\ stg.connected
           => (TICKS_WHEN_IN <= stg.position /\ stg.position <= TICKS_WHEN_OUT)
    /\ MIN_TICKS <= stg.position
    /\ stg.position <= MAX_TICKS

\* C13: startup() of the cold stage (socket Off, state Idle, not connected, no
\* activity) ends with the socket On, the stage connected, state In, position
\* TICKS_WHEN_IN, and neither Moving nor StaringUp active.
C13_ColdStartup ==
    [][ (/\ StageStartup
         /\ ~stg.powered
         /\ stg.state = "Idle"
         /\ ~stg.connected
         /\ stg.activities = {})
            => /\ stg'.powered
               /\ stg'.connected
               /\ stg'.state = "In"
               /\ stg'.position = TICKS_WHEN_IN
               /\ ~is_active(stg'.activities, "Moving")
               /\ ~is_active(stg'.activities, "StaringUp") ]_vars

\* C14: in every reachable state, connect() called twice gives the same state,
\* position, connected flag and activities as connect() called once, and so
\* does disconnect().
C14_ConnectIdempotent ==
    LET once_c  == Stage_connect(stg)
        twice_c == Stage_connect(once_c)
        once_d  == Stage_disconnect(stg)
        twice_d == Stage_disconnect(once_d)
        same(a, b) == /\ a.state = b.state
                      /\ a.position = b.position
                      /\ a.connected = b.connected
                      /\ a.activities = b.activities
    IN  same(once_c, twice_c) /\ same(once_d, twice_d)

\* C15: connect() called while the device's socket is Off leaves the socket
\* Off and the device disconnected, on the Stage, the Mount and the Focuser.
C15_ConnectPowerGated ==
    [][ /\ (StageConnect /\ ~stg.powered /\ ~stg.connected)
            => (~stg'.powered /\ ~stg'.connected)
        /\ (MountConnect /\ ~mnt.powered /\ ~mnt.ascom_connected /\ ~mnt.is_connected)
            => (~mnt'.powered /\ ~mnt'.ascom_connected /\ ~mnt'.is_connected)
        /\ (FocuserConnect /\ ~foc.powered /\ ~foc.is_connected)
            => (~foc'.powered /\ ~foc'.is_connected) ]_vars

\* The reasons of a list, as a set.
Reasons(list) == {list[i] : i \in 1..Len(list)}

\* C16: why_not_operational of a powered Mount or Focuser lists every
\* deficiency that applies: "shut down" when the device was shut down and "not
\* detected" when it is not detected, both when both apply.
C16_AllReasonsListed ==
    [][ /\ (MountWhyNotOperational /\ mnt.pw_up /\ mnt.powered)
            => /\ mnt.was_shut_down => "shut down" \in Reasons(mntWhy')
               /\ ~Mount_detected(mnt) => "not detected" \in Reasons(mntWhy')
        /\ (FocuserWhyNotOperational /\ foc.pw_up /\ foc.powered)
            => /\ foc.was_shut_down => "shut down" \in Reasons(focWhy')
               /\ ~Focuser_detected(foc) => "not detected" \in Reasons(focWhy') ]_vars

\* The priority of a reason: not powered, shut down, not detected,
\* vendor-reported not connected, sub-condition.
ReasonRank(reason) ==
    CASE reason = "not powered" -> 1
      [] reason = "shut down" -> 2
      [] reason = "not detected" -> 3
      [] reason \in {"(ASCOM) - not connected", "(ASCOM) - no handle",
                     "(PWI4) - not connected", "(PWI4) - does not exist"} -> 4
      [] OTHER -> 5

InPriorityOrder(list) ==
    \A i, j \in 1..Len(list) : i < j => ReasonRank(list[i]) <= ReasonRank(list[j])

\* C17: every list returned by why_not_operational of the Mount or the Focuser
\* has its reasons in the order not powered, shut down, not detected,
\* vendor-reported not connected, sub-conditions.
C17_ReasonsInPriorityOrder ==
    InPriorityOrder(mntWhy) /\ InPriorityOrder(focWhy)

C17_Witness ==
    /\ focLast = "why_not_operational"
    /\ focWhy = <<"shut down", "not detected">>

\* The Mount's case of C17: a list with a connection reason and both axes.
C17_MountWitness ==
    /\ mntLast = "why_not_operational"
    /\ Len(mntWhy) = 3

\* C18: for an unpowered Stage, Mount or Focuser the reported reasons are the
\* not-powered reason alone.
C18_UnpoweredShortCircuits ==
    [][ /\ (StageStatusCall /\ ~stg.powered)
            => stgStatus'.reasons = <<"not-powered">>
        /\ (MountWhyNotOperational /\ ~mnt.powered /\ mnt.pw_up)
            => mntWhy' = <<"not powered">>
        /\ (FocuserWhyNotOperational /\ ~foc.powered)
            => focWhy' = <<"not powered">> ]_vars

\* A request is in its wait and the vendor reports the value it waits for.
TrackingAsAwaited ==
    \/ (mntReq = "start_tracking" /\ mnt.is_tracking)
    \/ (mntReq = "stop_tracking" /\ ~mnt.is_tracking)

\* C19: a start_tracking() that went into its wait returns only when the poll
\* reports is_tracking (stop_tracking: not is_tracking); while the poll
\* reports the other value the request stays in the loop (it leaves it only by
\* the exception of a failed poll), abort() does not take it out of the loop,
\* and once the vendor reports the awaited value the call ends.
C19_TrackingWait ==
    /\ [][ /\ (mntReq = "start_tracking" /\ mntReq' = "none" /\ ~mnt'.raised)
               => (mnt.is_tracking /\ mnt'.is_tracking)
           /\ (mntReq = "stop_tracking" /\ mntReq' = "none" /\ ~mnt'.raised)
               => (~mnt.is_tracking /\ ~mnt'.is_tracking)
           /\ (mntReq = "start_tracking" /\ ~mnt.is_tracking)
               => (mntReq' = mntReq \/ (~mnt.pw_up /\ mnt'.raised))
           /\ (mntReq = "stop_tracking" /\ mnt.is_tracking)
               => (mntReq' = mntReq \/ (~mnt.pw_up /\ mnt'.raised))
           /\ MountAbort => mntReq' = mntReq ]_vars
    /\ TrackingAsAwaited ~> ~TrackingAsAwaited

C19_Witness ==
    /\ mntLast = "start_tracking"
    /\ mntReq = "none"
    /\ ~mnt.raised
    /\ mnt.cmds = <<"mount_tracking_on">>
    /\ mnt.is_tracking

\* C20: a second tick right after a tick changes nothing: for the Stage at
\* every time t of the two ticks, for the Mount and the Focuser with the vendor
\* status as it is, the device after two ticks equals the device after one, and
\* the second tick sends no command.
C20_TickIdempotent ==
    /\ \A t \in now..MaxTime :
           Stage_ontimer(Stage_ontimer(stg, t), t) = Stage_ontimer(stg, t)
    /\ LET once == Mount_ontimer(Mount_enter(mnt))
           twice == Mount_ontimer(Mount_enter(once))
       IN  twice = once /\ twice.cmds = <<>>
    /\ LET once == Focuser_ontimer(Focuser_enter(foc))
           twice == Focuser_ontimer(Focuser_enter(once))
       IN  twice = once /\ twice.cmds = <<>>

C20_Witness ==
    /\ stgLast.op = "ontimer"
    /\ stg.connected
    /\ is_active(stg.activities, "Moving")
    /\ stg.state = "MovingOut"
    /\ now - stg.motion_start_time = 5
    /\ stg.position = stg.ticks_at_start + 5 * TICKS_PER_SECOND

\* The Mount's and the Focuser's cases of C20: a tick that ended an activity.
C20_MountWitness ==
    /\ mntLast = "ontimer"
    /\ mnt.was_shut_down
    /\ ~mnt.powered
    /\ mnt.activities = {}

C20_FocuserWitness ==
    /\ focLast = "ontimer"
    /\ ~foc.raised
    /\ foc.target = {}
    /\ foc.position = known_as_good_position
    /\ foc.activities = {}

\* C21: after a tick of a connected stage, StaringUp is not active with the
\* state In and ShuttingDown is not active with the state Out, whether or not
\* Moving was active when the tick began.
C21_TickEndsOuterActivities ==
    [][ (StageOntimer /\ stg.connected)
            => /\ ~(is_active(stg'.activities, "StaringUp") /\ stg'.state = "In")
               /\ ~(is_active(stg'.activities, "ShuttingDown") /\ stg'.state = "Out") ]_vars

\* C22: the document returned by Stage.status() has is_operational set to a
\* boolean, true iff the stage is powered, connected and in state In, and true
\* iff the reasons list is empty.
C22_StatusIsOperationalRecord ==
    stgLast.op = "status"
        => /\ stgStatus.is_operational \in {"True", "False"}
           /\ (stgStatus.is_operational = "True")
                  <=> (stg.powered /\ stg.connected /\ stg.state = "In")
           /\ (stgStatus.is_operational = "True") <=> (stgStatus.reasons = <<>>)

\* C23: the ShuttingDown and Parking started by shutdown() are not left set
\* for ever: with the timer thread running, the vendor driver and ASCOM
\* answering, the park slew reported finished and no request waiting for a
\* tracking state, the ticks do not go on for ever as the only operations while
\* both flags stay set (a tick clears them and sets was_shut_down).
C23_MountShutdownCompletes ==
    []<>( \/ ~(is_active(mnt.activities, "Parking")
                 /\ is_active(mnt.activities, "ShuttingDown"))
          \/ mntLast # "ontimer"
          \/ mntReq # "none"
          \/ mnt.is_slewing
          \/ ~mnt.pw_up
          \/ ~mnt.ascom_ok
          \/ ~mntTimerAlive )

\* C24: in every reachable state of the Mount, StartingUp is active only while
\* FindingHome, whose completion clears it, is active too.
C24_StartingUpOnlyWhileHoming ==
    is_active(mnt.activities, "StartingUp") => is_active(mnt.activities, "FindingHome")

\* C25: no position outside lower_limit..upper_limit is ever sent to the
\* vendor driver as a goto target or kept as the target of a Moving activity.
C25_TargetWithinBounds ==
    \A p \in foc.hw_target \cup foc.target : lower_limit <= p /\ p <= upper_limit

\* C26: whenever the timer thread and the request thread are both out of
\* their methods, however their statements were interleaved, the stage is not
\* in state MovingIn or MovingOut with Moving inactive.
C26_RaceKeepsMovingState ==
    (stgRace.tick = "idle" /\ stgRace.move = "idle")
        => (stg.state \in {"MovingIn", "MovingOut"} => is_active(stg.activities, "Moving"))

\* A step ended the activity; a step left each of the flags as it was.
ActivityEnded(before, after, flag) == is_active(before, flag) /\ ~is_active(after, flag)

ActivitiesKept(before, after, flags) ==
    \A a \in flags : is_active(before, a) <=> is_active(after, a)

\* C27: a Mount tick that ends FindingHome leaves Parking, ShuttingDown,
\* Slewing and Tracking as they were, a Mount tick that ends Parking leaves
\* FindingHome and StartingUp as they were, and a Stage tick that ends Moving
\* leaves StaringUp set unless the state is In and ShuttingDown set unless the
\* state is Out.
C27_FlagsClearedIndependently ==
    [][ /\ (MountOntimer /\ ActivityEnded(mnt.activities, mnt'.activities, "FindingHome"))
            => ActivitiesKept(mnt.activities, mnt'.activities,
                              {"Parking", "ShuttingDown", "Slewing", "Tracking"})
        /\ (MountOntimer /\ ActivityEnded(mnt.activities, mnt'.activities, "Parking"))
            => ActivitiesKept(mnt.activities, mnt'.activities, {"FindingHome", "StartingUp"})
        /\ (StageOntimer /\ ActivityEnded(stg.activities, stg'.activities, "Moving"))
            => /\ (is_active(stg.activities, "StaringUp") /\ stg'.state # "In")
                   => is_active(stg'.activities, "StaringUp")
               /\ (is_active(stg.activities, "ShuttingDown") /\ stg'.state # "Out")
                   => is_active(stg'.activities, "ShuttingDown") ]_vars

\* C28: move(target), target In or Out, on a connected stage in another state
\* starts Moving, sets the state to MovingIn for In and MovingOut for Out, and
\* records ticks_at_start = the position at the call (and motion_start_time =
\* now); on a stage that is not connected it changes nothing.
C28_MoveStartsMotion ==
    [][ \A target \in {"In", "Out"} :
            (stgLast' = [op |-> "move", arg |-> target]
                 /\ stg' = Stage_move(stg, target, now))
                => /\ (stg.connected /\ stg.state # target)
                       => /\ is_active(stg'.activities, "Moving")
                          /\ stg'.state = (IF target = "In" THEN "MovingIn" ELSE "MovingOut")
                          /\ stg'.ticks_at_start = stg.position
                          /\ stg'.motion_start_time = now
                          /\ stg'.position = stg.position
                   /\ ~stg.connected => stg' = stg ]_vars

C28_Witness ==
    /\ stgLast = [op |-> "move", arg |-> "In"]
    /\ stg.connected
    /\ stg.state = "MovingIn"
    /\ is_active(stg.activities, "Moving")
    /\ stg.position = TICKS_WHEN_OUT
    /\ stg.ticks_at_start = TICKS_WHEN_OUT
    /\ stg.motion_start_time = now

\* C29: in every state left by a completed Stage operation, Moving is active
\* iff the state is MovingIn or MovingOut.
C29_MovingIffMovingState ==
    is_active(stg.activities, "Moving") <=> stg.state \in {"MovingIn", "MovingOut"}

\* C30: for the Mount and the Focuser, on one snapshot of power, vendor status
\* and ASCOM, operational is true iff why_not_operational is empty.
C30_OperationalIffNoReason ==
    /\ mnt.pw_up
           => (Mount_operational(mnt) <=> Mount_why_not_operational(mnt) = <<>>)
    /\ foc.pw_up
           => (Focuser_operational(foc) <=> Focuser_why_not_operational(foc) = <<>>)

\* The vendor commands a call sent.
Commanded(cmds) == { cmds[i] : i \in DOMAIN cmds }

\* C31: after connect() on a powered mount whose vendor driver and ASCOM
\* answer, whatever the vendor flags were, each axis that was not enabled has
\* been commanded enabled and connected is true; after disconnect() on a
\* powered mount connected is false.
C31_ConnectDisconnectTakeEffect ==
    [][ /\ ( /\ mntLast' = "connect"
             /\ mnt.powered /\ mnt.pw_up /\ mnt.ascom_ok
             /\ mnt' = Mount_connect(Mount_enter(mnt)) )
            => /\ ~mnt.axis0_enabled => "mount_enable_0" \in Commanded(mnt'.cmds)
               /\ ~mnt.axis1_enabled => "mount_enable_1" \in Commanded(mnt'.cmds)
               /\ Mount_connected(mnt')
        /\ ( /\ mntLast' = "disconnect"
             /\ mnt.powered /\ mnt.pw_up /\ mnt.ascom_ok
             /\ mnt' = Mount_disconnect(Mount_enter(mnt)) )
            => ~Mount_connected(mnt')
      ]_vars

\* C32: a shutdown() or a tick that leaves the mount's socket Off does not
\* leave Parking active: the power-off comes after the park has completed.
C32_PowerOffAfterPark ==
    [][ ( /\ \/ mntLast' = "shutdown" /\ mnt' = Mount_shutdown(Mount_enter(mnt))
             \/ mntLast' = "ontimer" /\ mnt' = Mount_ontimer(Mount_enter(mnt))
          /\ ~mnt'.powered
          /\ "mount_park" \in Commanded(mnt'.cmds) \/ mnt.powered )
            => ~is_active(mnt'.activities, "Parking")
      ]_vars

\* C33: whenever the goto() request thread is out of its method and the
\* timer thread out of its tick, however their statements were interleaved, a
\* focuser commanded to a position it has not reached has Moving active and
\* target equal to that position.
C33_CommandedMoveIsTracked ==
    (focRace.tick = "idle" /\ focRace.goto = "idle")
        => \A p \in foc.hw_target :
               p # foc.position
                   => is_active(foc.activities, "Moving") /\ foc.target = {p}

\* C34: after disconnect() no subsystem has been told to connect by that
\* call and Unit.connected is false (so connect() followed by disconnect()
\* leaves no subsystem connected by the second call).
C34_DisconnectDisconnects ==
    untLink.last = "disconnect"
        => /\ \A n \in Subsystems : <<n, TRUE>> \notin untLink.assigned
           /\ ~Unit_connected(untLink)

\* C35: the Focuser's was_shut_down is cleared only by a startup() and set
\* only by a shutdown(), whatever connect, disconnect, goto, move, abort,
\* ticks and socket switches come in between, and while it is set
\* operational is false.
C35_ShutDownFlagSticky ==
    [][ /\ (foc.was_shut_down /\ ~foc'.was_shut_down)
            => (focLast' = "startup" /\ foc' = Focuser_startup(Focuser_enter(foc)))
        /\ (~foc.was_shut_down /\ foc'.was_shut_down)
            => (focLast' = "shutdown" /\ foc' = Focuser_shutdown(Focuser_enter(foc)))
        /\ foc'.was_shut_down => ~Focuser_operational(foc')
      ]_vars

\* A focuser that was shut down and then connected again: powered, listed and
\* connected, with the flag still set.
C35_Witness ==
    /\ foc.was_shut_down
    /\ focLast = "connect"
    /\ foc.powered /\ foc.exists /\ foc.is_connected

====
